---- MODULE Spec2Model ----
(***************************************************************************)
(* A model of the chaos exploration engine of web-autopilot                *)
(* (packages/core/src/llm/chaos-runner.ts): the SeededRandom generator     *)
(* (Mulberry32), the ChaosRunner.run loop with its action executors, the   *)
(* safety filter, the invariant checks and the result it returns.          *)
(*                                                                         *)
(* Numbers.  A JavaScript number that holds an integer is written as a     *)
(* pair <<hi, lo>> with value hi * 65536 + lo and 0 <= lo < 65536, so that *)
(* 32-bit words (and the generator's state, which the code never wraps)    *)
(* are computed exactly although TLC's integers are narrower.              *)
(***************************************************************************)
EXTENDS Integers, Sequences, FiniteSets, TLC

(***************************************************************************)
(* 32-bit arithmetic of SeededRandom.next                                  *)
(***************************************************************************)
W16 == 65536

RECURSIVE BitXor(_, _, _)
\* a ^ b on the low n bits
BitXor(a, b, n) ==
  IF n = 0 THEN 0
  ELSE ((a + b) % 2) + 2 * BitXor(a \div 2, b \div 2, n - 1)

RECURSIVE BitOr(_, _, _)
\* a | b on the low n bits
BitOr(a, b, n) ==
  IF n = 0 THEN 0
  ELSE (IF a % 2 = 1 \/ b % 2 = 1 THEN 1 ELSE 0)
       + 2 * BitOr(a \div 2, b \div 2, n - 1)

\* x ^ y on 32-bit words
Xor32(x, y) == <<BitXor(x[1], y[1], 16), BitXor(x[2], y[2], 16)>>

\* x | c on a 32-bit word, c a constant below 65536 (the code uses 1 and 61)
OrLow(x, c) == <<x[1], BitOr(x[2], c, 16)>>

\* x >>> k on a 32-bit word, 0 < k < 16
Shr(x, k) ==
  LET p == 2 ^ k
      q == 2 ^ (16 - k)
  IN  <<x[1] \div p, (x[1] % p) * q + x[2] \div p>>

\* ToInt32 / ToUint32 of an integer-valued number: its low 32 bits
ToWord(n) == <<n[1] % W16, n[2]>>

\* (x + y) mod 2^32 on 32-bit words
Add32(x, y) ==
  LET lo == x[2] + y[2]
  IN  <<(x[1] + y[1] + lo \div W16) % W16, lo % W16>>

\* the full product <<high 16 bits, low 16 bits>> of two 16-bit numbers
Mul16(x, y) ==
  LET p0 == (x % 256) * y
      p1 == (x \div 256) * y
      s  == p0 + (p1 % 256) * 256
  IN  <<s \div W16 + p1 \div 256, s % W16>>

\* (x * y) mod 2^16 of two 16-bit numbers
MulLo16(x, y) == ((x % 256) * y + (((x \div 256) * y) % 256) * 256) % W16

\* Math.imul(x, y): the low 32 bits of the product
Imul(x, y) ==
  LET ll == Mul16(x[2], y[2])
  IN  <<(ll[1] + MulLo16(x[1], y[2]) + MulLo16(x[2], y[1])) % W16, ll[2]>>

\* the increment 0x6d2b79f5 of Mulberry32
Golden == <<27947, 31221>>

\* a variant that stores the sum reduced mod 2^32
AdvanceWrapped(state) ==
  LET lo == state[2] + Golden[2]
  IN  <<(state[1] + Golden[1] + lo \div W16) % W16, lo % W16>>

\* this.state += 0x6d2b79f5: a plain number addition, never reduced mod 2^32
Advance(state) ==
  LET lo == state[2] + Golden[2]
  IN  <<state[1] + Golden[1] + lo \div W16, lo % W16>>

\* the 32-bit word u with next() = u / 4294967296, computed from the
\* advanced state
Mix(state) ==
  LET t0 == ToWord(state)
      t1 == Imul(Xor32(t0, Shr(t0, 15)), OrLow(t0, 1))
      t2 == Xor32(t1, Add32(t1, Imul(Xor32(t1, Shr(t1, 7)), OrLow(t1, 61))))
  IN  Xor32(t2, Shr(t2, 14))

\* next(): <<the word u of the result u / 2^32, the new state>>
RngNext(state) == <<Mix(Advance(state)), Advance(state)>>

\* a variant with Math.round in place of Math.floor (for n >= 0)
ScaleRound(u, n) ==
  (2 * (u[1] * n + (u[2] * n) \div W16) + W16 + (2 * ((u[2] * n) % W16)) \div W16)
    \div (2 * W16)

\* Math.floor(u / 2^32 * n) for a 32-bit word u and -2^15 < n < 2^15
ScaleFloor(u, n) == (u[1] * n + (u[2] * n) \div W16) \div W16

\* nextInt(min, max): <<Math.floor(next() * (max - min)) + min, the new state>>
RngNextInt(state, min, max) ==
  LET d == RngNext(state)
  IN  <<ScaleFloor(d[1], max - min) + min, d[2]>>

\* pick(array): <<the element or None, the new state>>; an empty array
\* returns undefined without drawing
None == "none"

RngPick(state, array) ==
  IF Len(array) = 0 THEN <<None, state>>
  ELSE LET d == RngNextInt(state, 0, Len(array))
       IN  <<array[d[1] + 1], d[2]>>

\* a variant of the swap written as two assignments in a row, the second
\* reading what the first wrote
SwapOverwrite(array, i, j) == [array EXCEPT ![i] = array[j]]

\* [array[i], array[j]] = [array[j], array[i]], on positions counted from 1
Swap(array, i, j) == [array EXCEPT ![i] = array[j], ![j] = array[i]]

RECURSIVE ShuffleFrom(_, _, _)
\* shuffle's loop from index i (counted from 0) down to 1
ShuffleFrom(state, array, i) ==
  IF i <= 0 THEN <<array, state>>
  ELSE LET d == RngNextInt(state, 0, i + 1)
       IN  ShuffleFrom(d[2], Swap(array, i + 1, d[1] + 1), i - 1)

\* shuffle(array): <<the array after the shuffle, the new state>>
RngShuffle(state, array) == ShuffleFrom(state, array, Len(array) - 1)

(***************************************************************************)
(* Bounds of the model                                                     *)
(***************************************************************************)
\* the largest step budget (maxSteps) a configuration is given
MaxSteps == 2
\* the largest elapsed time the clock is observed at
MaxClock == 1
\* the most events (console messages, uncaught exceptions) a page emits
MaxPageEvents == 2

(***************************************************************************)
(* The configuration (ChaosConfig) and the target (Page)                   *)
(***************************************************************************)
Runners == {1, 2}

ActionKinds ==
  <<"click", "type-prompt", "navigate-back", "navigate-forward", "refresh",
    "scroll", "keyboard-shortcut", "resize-viewport", "toggle-sidebar",
    "switch-model">>

\* the constructor's default for allowedActions
DefaultAllowed == <<"click", "type-prompt", "scroll", "keyboard-shortcut">>

\* the other allowedActions lists configurations are given: the empty list
\* and one list per kind the default leaves out
OtherAllowed == {<<>>} \cup {<<ActionKinds[i]>> : i \in {3, 4, 5, 8, 9, 10}}

\* the seeds configurations are drawn from: 54321 and 2^32 - 1
Seeds == {<<0, 54321>>, <<65535, 65535>>}

\* forbiddenSelectors and promptCorpus of every configuration
ForbiddenSelectors == <<"sel-delete", "sel-remove">>
PromptCorpus == <<"Hello", "List 3 colors">>

\* maxTimeMs values: 0 (not positive), budgets the clock reaches, and one it
\* never reaches
TimeBudgets == 0 .. (MaxClock + 1)

\* onAction: absent, or a callback (which may throw when it is called)
Callbacks == {None, "callback"}

\* The configurations runners are constructed with: every seed, step budget,
\* time budget and callback with the default allowedActions, and each other
\* allowedActions list with the largest step budget and a time budget the
\* clock never reaches.
Configs ==
  [seed : Seeds, maxSteps : 0 .. MaxSteps, maxTimeMs : TimeBudgets,
   allowedActions : {DefaultAllowed}, forbiddenSelectors : {ForbiddenSelectors},
   promptCorpus : {PromptCorpus}, onAction : Callbacks]
  \cup
  [seed : {<<0, 54321>>}, maxSteps : {MaxSteps}, maxTimeMs : {MaxClock + 1},
   allowedActions : OtherAllowed, forbiddenSelectors : {ForbiddenSelectors},
   promptCorpus : {PromptCorpus}, onAction : {None}]

\* The elements a page holds, with the outcome of
\* element.evaluate(el => el.matches(sel)) for each forbidden selector:
\* "true", "false", or "throw" when the evaluation fails.
ClickElements == <<"btnSend", "btnDelete", "tabHistory", "staleRemove", "staleLink">>
InputElements == {"chatBox", "removeNote"}

MatchCheck(el, sel) ==
  CASE el = "btnDelete"   -> IF sel = "sel-delete" THEN "true" ELSE "false"
    [] el = "staleRemove" -> IF sel = "sel-delete" THEN "throw" ELSE "true"
    [] el = "staleLink"   -> "throw"
    [] el = "removeNote"  -> IF sel = "sel-remove" THEN "true" ELSE "false"
    [] OTHER              -> "false"

\* what page.$$(clickableSelectors) may return: the page's elements that are
\* present, in document order
Pools ==
  {SelectSeq(ClickElements, LAMBDA e : e \in S) :
     S \in SUBSET {ClickElements[i] : i \in 1 .. Len(ClickElements)}}

\* A page is "steady" (every call succeeds and every query is answered the
\* same way: the pool and the input it holds, never blank, no errors),
\* "free" (every call may answer anything or fail), "blanking" (steady, but
\* the blank check may answer true) or "noisy" (steady, but the page emits
\* console errors and uncaught exceptions).
SteadyPages ==
  {[mode |-> "steady", pool |-> <<>>, input |-> None],
   [mode |-> "steady", pool |-> <<"btnSend", "btnDelete", "tabHistory">>,
    input |-> "chatBox"]}
FreePage == [mode |-> "free", pool |-> <<>>, input |-> None]
MockPages ==
  {[mode |-> "blanking", pool |-> <<>>, input |-> None],
   [mode |-> "noisy", pool |-> <<>>, input |-> None]}

\* whether a call on the page may succeed / fail
Oks(p) == IF p.mode = "free" THEN BOOLEAN ELSE {TRUE}

(***************************************************************************)
(* State                                                                   *)
(***************************************************************************)
VARIABLES
  cfg,                 \* this.config
  page,                \* this.page: the target's behaviour
  pc,                  \* where run() stands
  stepNumber,          \* run's stepNumber
  actionType,          \* run's actionType of the step in progress
  rng,                 \* this.rng.state
  actions,             \* this.actions
  consoleErrors,       \* this.consoleErrors
  uncaughtExceptions,  \* this.uncaughtExceptions
  invariantViolations, \* run's invariantViolations
  listeners,           \* the 'console' listeners registered on the page
  pageEvents,          \* the events the page has emitted
  elapsed,             \* Date.now() - startTime as last read by the loop
  result,              \* what run() returned
  chosen,              \* history: per step, the kind and the values drawn
  acted,               \* history: the elements an executor acted on
  fault,               \* history: how the target failed the latest executor
  reported,            \* history: the onAction calls
  observed,            \* history: what each invariant check read
  snapshot,            \* history: the runner's lists as they were at return
  earlier,             \* history: what the runs before the current one left
  gen,                 \* stand-alone SeededRandom instances: their state
  history,             \* stand-alone SeededRandom instances: their calls
  candidates,          \* the filter loop alone: the elements it is given
  safeElements,        \* the filter loop alone: the elements it kept
  filtered             \* the filter loop alone: whether it has run

runnerVars ==
  <<cfg, page, pc, stepNumber, actionType, rng, actions, consoleErrors,
    uncaughtExceptions, invariantViolations, listeners, pageEvents, elapsed,
    result, chosen, acted, fault, reported, observed, snapshot, earlier>>
genVars == <<gen, history>>
filterVars == <<candidates, safeElements, filtered>>
vars == <<runnerVars, genVars, filterVars>>

(***************************************************************************)
(* ChaosAction records and the executors                                   *)
(***************************************************************************)
\* A ChaosAction without its timestamp (wall-clock time, read by no claim).
\* None stands for an absent target, value or error.
Record(type, target, value, success, error) ==
  [type |-> type, target |-> target, value |-> value, success |-> success,
   error |-> error]

\* the message of an error thrown by a call on the page
TargetError == "target error"

\* a variant of the catch that reports the step as a success
CaughtAsSuccess(type) == Record(type, None, None, TRUE, None)

\* executeAction's catch: the record made of an error an executor threw
Caught(type) == Record(type, None, None, FALSE, TargetError)

\* What an executor call comes to: the record executeAction returns, the
\* generator's state after it, and for the histories the values drawn, the
\* element acted on and how the target failed ("none", "query" for a failed
\* element query, "no-target" for no eligible element, "primitive" for a
\* failed action primitive).
Outcome(rec, state, drawn, elem, flt) ==
  [rec |-> rec, rng |-> state, drawn |-> drawn, elem |-> elem, fault |-> flt]

NoDraw == <<None, 0>>

RECURSIVE isForbiddenElementOneTry(_, _)
\* a variant of the loop with one try around all of it rather than one per
\* check: the first check that throws ends the loop with false
isForbiddenElementOneTry(el, selectors) ==
  IF Len(selectors) = 0 THEN FALSE
  ELSE IF MatchCheck(el, Head(selectors)) = "true" THEN TRUE
  ELSE IF MatchCheck(el, Head(selectors)) = "throw" THEN FALSE
  ELSE isForbiddenElementOneTry(el, Tail(selectors))

RECURSIVE isForbiddenElementFailClosed(_, _)
\* a variant whose catch returns true: a check that throws forbids the
\* element
isForbiddenElementFailClosed(el, selectors) ==
  IF Len(selectors) = 0 THEN FALSE
  ELSE IF MatchCheck(el, Head(selectors)) \in {"true", "throw"} THEN TRUE
  ELSE isForbiddenElementFailClosed(el, Tail(selectors))

RECURSIVE isForbiddenElement(_, _)
\* the loop over forbiddenSelectors: the first check that returns true
\* forbids the element, a check that throws is skipped
isForbiddenElement(el, selectors) ==
  IF Len(selectors) = 0 THEN FALSE
  ELSE IF MatchCheck(el, Head(selectors)) = "true" THEN TRUE
  ELSE isForbiddenElement(el, Tail(selectors))

\* a variant of the filter loop that keeps every element
AllElements(elements, selectors) == elements

\* executeClick's filter loop: the elements that are not forbidden
SafeElements(elements, selectors) ==
  SelectSeq(elements, LAMBDA el : ~isForbiddenElement(el, selectors))

\* getElementDescription: the element's description, or 'unknown element'
\* when the evaluation fails
getElementDescription(el, ok) == IF ok THEN el ELSE "unknown element"

\* the answers page.$$ may give
PoolsOf(p) == IF p.mode = "free" THEN Pools ELSE {p.pool}
\* the answers the page.$ loop over inputSelectors may end with
InputsOf(p) ==
  IF p.mode = "free" THEN InputElements \cup {None} ELSE {p.input}
\* whether a call on the page may throw
MayThrow(p) == p.mode = "free"

ClickOutcomes(c, p, state) ==
  (IF MayThrow(p)
     THEN {Outcome(Caught("click"), state, NoDraw, None, "query")}
     ELSE {})
  \cup UNION
    {LET safe == SafeElements(elements, c.forbiddenSelectors)
     IN  IF Len(safe) = 0
         THEN {Outcome(Record("click", None, None, FALSE,
                              "No clickable elements found"),
                       state, NoDraw, None, "no-target")}
         ELSE LET d == RngPick(state, safe)
              IN  {Outcome(Record("click", getElementDescription(d[1], described),
                                  None, clicked,
                                  IF clicked THEN None ELSE TargetError),
                           d[2], NoDraw, d[1],
                           IF clicked THEN "none" ELSE "primitive") :
                     described \in Oks(p), clicked \in Oks(p)}
     : elements \in PoolsOf(p)}

TypePromptOutcomes(c, p, state) ==
  (IF MayThrow(p)
     THEN {Outcome(Caught("type-prompt"), state, NoDraw, None, "query")}
     ELSE {})
  \cup UNION
    {IF input = None
     THEN {Outcome(Record("type-prompt", None, None, FALSE,
                          "No chat input found"),
                   state, NoDraw, None, "no-target")}
     ELSE LET d == RngPick(state, c.promptCorpus)
              prompt == IF d[1] = None THEN "Hello" ELSE d[1]
          IN  {Outcome(Record("type-prompt", None, prompt, sent,
                              IF sent THEN None ELSE TargetError),
                       d[2], <<prompt, 0>>, input,
                       IF sent THEN "none" ELSE "primitive") :
                 sent \in Oks(p)}
     : input \in InputsOf(p)}

\* a variant of goBack / goForward without the .catch: the failure reaches
\* executeAction's catch
NavigateOutcomesUncaught(type, p, state) ==
  {Outcome(IF ok THEN Record(type, None, None, TRUE, None) ELSE Caught(type),
           state, NoDraw, None, IF ok THEN "none" ELSE "primitive") :
     ok \in Oks(p)}

\* goBack / goForward: .catch(() => {}) swallows the failure
NavigateOutcomes(type, p, state) ==
  {Outcome(Record(type, None, None, TRUE, None), state, NoDraw, None,
           IF ok THEN "none" ELSE "primitive") : ok \in Oks(p)}

\* reload has no .catch: its failure reaches executeAction's catch
RefreshOutcomes(p, state) ==
  {Outcome(IF ok THEN Record("refresh", None, None, TRUE, None)
                 ELSE Caught("refresh"),
           state, NoDraw, None, IF ok THEN "none" ELSE "primitive") :
     ok \in Oks(p)}

ScrollDirections == <<"up", "down", "top", "bottom">>

ScrollOutcomes(p, state) ==
  LET d == RngPick(state, ScrollDirections)
      a == RngNextInt(d[2], 100, 500)
  IN  {Outcome(IF ok THEN Record("scroll", None, d[1], TRUE, None)
                     ELSE Caught("scroll"),
               a[2], <<d[1], a[1]>>, None,
               IF ok THEN "none" ELSE "primitive") : ok \in Oks(p)}

\* the descriptions of executeKeyboardShortcut's shortcuts
Shortcuts == <<"Escape", "Copy", "Select All", "Tab", "Shift+Tab">>

KeyboardShortcutOutcomes(p, state) ==
  LET d == RngPick(state, Shortcuts)
  IN  {Outcome(Record("keyboard-shortcut", None, d[1], ok,
                      IF ok THEN None ELSE TargetError),
               d[2], <<d[1], 0>>, None,
               IF ok THEN "none" ELSE "primitive") : ok \in Oks(p)}

\* the names of executeResizeViewport's viewports
Viewports == <<"desktop-lg", "desktop-sm", "tablet", "mobile">>

ResizeViewportOutcomes(p, state) ==
  LET d == RngPick(state, Viewports)
  IN  {Outcome(IF ok THEN Record("resize-viewport", None, d[1], TRUE, None)
                     ELSE Caught("resize-viewport"),
               d[2], <<d[1], 0>>, None,
               IF ok THEN "none" ELSE "primitive") : ok \in Oks(p)}

\* executeAction's default branch
UnknownOutcomes(type, state) ==
  {Outcome(Record(type, None, None, FALSE, "Unknown action type"),
           state, NoDraw, None, "none")}

(***************************************************************************)
(* Construction                                                            *)
(***************************************************************************)
NoResult == [kind |-> "pending"]

\* a variant of the constructor that seeds each generator from the clock
\* (two different readings) rather than from config.seed
ConstructedClockSeeded(c, pg) ==
  /\ cfg = [r \in Runners |-> c]
  /\ page = pg
  /\ pc = [r \in Runners |-> "new"]
  /\ stepNumber = [r \in Runners |-> 0]
  /\ actionType = [r \in Runners |-> None]
  /\ rng = [r \in Runners |-> <<0, r>>]
  /\ actions = [r \in Runners |-> <<>>]
  /\ consoleErrors = [r \in Runners |-> <<>>]
  /\ uncaughtExceptions = [r \in Runners |-> <<>>]
  /\ invariantViolations = [r \in Runners |-> <<>>]
  /\ listeners = [r \in Runners |-> 0]
  /\ pageEvents = [r \in Runners |-> 0]
  /\ elapsed = [r \in Runners |-> 0]
  /\ result = [r \in Runners |-> NoResult]
  /\ chosen = [r \in Runners |-> <<>>]
  /\ acted = [r \in Runners |-> <<>>]
  /\ fault = [r \in Runners |-> "none"]
  /\ reported = [r \in Runners |-> <<>>]
  /\ observed = [r \in Runners |-> <<>>]
  /\ snapshot = [r \in Runners |-> None]
  /\ earlier = [r \in Runners |-> <<>>]

\* new ChaosRunner(page, config) for both runners, with the same
\* configuration c, on the pages pg
Constructed(c, pg) ==
  /\ cfg = [r \in Runners |-> c]
  /\ page = pg
  /\ pc = [r \in Runners |-> "new"]
  /\ stepNumber = [r \in Runners |-> 0]
  /\ actionType = [r \in Runners |-> None]
  /\ rng = [r \in Runners |-> c.seed]
  /\ actions = [r \in Runners |-> <<>>]
  /\ consoleErrors = [r \in Runners |-> <<>>]
  /\ uncaughtExceptions = [r \in Runners |-> <<>>]
  /\ invariantViolations = [r \in Runners |-> <<>>]
  /\ listeners = [r \in Runners |-> 0]
  /\ pageEvents = [r \in Runners |-> 0]
  /\ elapsed = [r \in Runners |-> 0]
  /\ result = [r \in Runners |-> NoResult]
  /\ chosen = [r \in Runners |-> <<>>]
  /\ acted = [r \in Runners |-> <<>>]
  /\ fault = [r \in Runners |-> "none"]
  /\ reported = [r \in Runners |-> <<>>]
  /\ observed = [r \in Runners |-> <<>>]
  /\ snapshot = [r \in Runners |-> None]
  /\ earlier = [r \in Runners |-> <<>>]

\* new SeededRandom(seed), twice
Seeded(seed) ==
  /\ gen = [i \in Runners |-> seed]
  /\ history = [i \in Runners |-> <<>>]

\* the filter loop of executeClick given the elements `given`, not yet run
Queried(given) ==
  /\ candidates = given
  /\ safeElements = <<>>
  /\ filtered = FALSE

(***************************************************************************)
(* ChaosRunner.run                                                         *)
(***************************************************************************)
\* run(), up to the loop: startTime, the two local lists, setupErrorListeners
run(r) ==
  /\ pc[r] = "new"
  /\ pc' = [pc EXCEPT ![r] = "loop"]
  /\ stepNumber' = [stepNumber EXCEPT ![r] = 0]
  /\ invariantViolations' = [invariantViolations EXCEPT ![r] = <<>>]
  /\ listeners' = [listeners EXCEPT ![r] = @ + 1]
  /\ elapsed' = [elapsed EXCEPT ![r] = 0]
  /\ UNCHANGED <<cfg, page, actionType, rng, actions, consoleErrors,
                 uncaughtExceptions, pageEvents, result, chosen, acted, fault,
                 reported>>
  /\ UNCHANGED <<observed, snapshot>>
  /\ UNCHANGED earlier
  /\ UNCHANGED genVars
  /\ UNCHANGED filterVars

\* the most calls of run() on one runner
MaxRuns == 2

\* a variant of a later call that starts from fresh state: an empty log, the
\* generator at the seed, and no listener added to the one registered
runAgainFresh(r) ==
  /\ pc[r] = "done"
  /\ Len(earlier[r]) < MaxRuns - 1
  /\ earlier' = [earlier EXCEPT ![r] =
                   Append(@, [actions |-> actions[r], rng |-> rng[r],
                              errors |-> Len(consoleErrors[r]),
                              totalSteps |-> result[r].totalSteps])]
  /\ pc' = [pc EXCEPT ![r] = "loop"]
  /\ stepNumber' = [stepNumber EXCEPT ![r] = 0]
  /\ invariantViolations' = [invariantViolations EXCEPT ![r] = <<>>]
  /\ actions' = [actions EXCEPT ![r] = <<>>]
  /\ rng' = [rng EXCEPT ![r] = cfg[r].seed]
  /\ elapsed' = [elapsed EXCEPT ![r] = 0]
  /\ UNCHANGED <<cfg, page, actionType, consoleErrors, listeners,
                 uncaughtExceptions, pageEvents, result, chosen, acted, fault,
                 reported>>
  /\ UNCHANGED <<observed, snapshot>>
  /\ UNCHANGED genVars
  /\ UNCHANGED filterVars

\* run() called again on a runner whose run() has returned, up to the loop:
\* a new startTime, new local lists and stepNumber, setupErrorListeners once
\* more; the fields (the generator, the three logs) are left as they are
runAgain(r) ==
  /\ pc[r] = "done"
  /\ Len(earlier[r]) < MaxRuns - 1
  /\ earlier' = [earlier EXCEPT ![r] =
                   Append(@, [actions |-> actions[r], rng |-> rng[r],
                              errors |-> Len(consoleErrors[r]),
                              totalSteps |-> result[r].totalSteps])]
  /\ pc' = [pc EXCEPT ![r] = "loop"]
  /\ stepNumber' = [stepNumber EXCEPT ![r] = 0]
  /\ invariantViolations' = [invariantViolations EXCEPT ![r] = <<>>]
  /\ listeners' = [listeners EXCEPT ![r] = @ + 1]
  /\ elapsed' = [elapsed EXCEPT ![r] = 0]
  /\ UNCHANGED <<cfg, page, actionType, rng, actions, consoleErrors,
                 uncaughtExceptions, pageEvents, result, chosen, acted, fault,
                 reported>>
  /\ UNCHANGED <<observed, snapshot>>
  /\ UNCHANGED genVars
  /\ UNCHANGED filterVars

\* a variant of the loop whose condition reads `stepNumber <= maxSteps`
LoopStepInclusive(r, t) ==
  IF stepNumber[r] <= cfg[r].maxSteps /\ t < cfg[r].maxTimeMs
  THEN LET d == RngPick(rng[r], cfg[r].allowedActions)
       IN  /\ stepNumber' = [stepNumber EXCEPT ![r] = @ + 1]
           /\ rng' = [rng EXCEPT ![r] = d[2]]
           /\ actionType' = [actionType EXCEPT ![r] = d[1]]
           /\ pc' = [pc EXCEPT ![r] = IF d[1] = None THEN "loop" ELSE "exec"]
  ELSE /\ pc' = [pc EXCEPT ![r] = "exited"]
       /\ UNCHANGED <<stepNumber, rng, actionType>>

\* a variant that increments stepNumber first and then tests
\* `stepNumber >= maxSteps || elapsed >= maxTimeMs` to end the loop
LoopStepIncrementFirst(r, t) ==
  IF stepNumber[r] + 1 >= cfg[r].maxSteps \/ t >= cfg[r].maxTimeMs
  THEN /\ stepNumber' = [stepNumber EXCEPT ![r] = @ + 1]
       /\ pc' = [pc EXCEPT ![r] = "exited"]
       /\ UNCHANGED <<rng, actionType>>
  ELSE LET d == RngPick(rng[r], cfg[r].allowedActions)
       IN  /\ stepNumber' = [stepNumber EXCEPT ![r] = @ + 1]
           /\ rng' = [rng EXCEPT ![r] = d[2]]
           /\ actionType' = [actionType EXCEPT ![r] = d[1]]
           /\ pc' = [pc EXCEPT ![r] = IF d[1] = None THEN "loop" ELSE "exec"]

\* a variant in which the generator is one object shared by all runners (a
\* module-level singleton): a draw moves the state every runner reads
LoopStepSharedRng(r, t) ==
  IF stepNumber[r] < cfg[r].maxSteps /\ t < cfg[r].maxTimeMs
  THEN LET d == RngPick(rng[r], cfg[r].allowedActions)
       IN  /\ stepNumber' = [stepNumber EXCEPT ![r] = @ + 1]
           /\ rng' = [j \in Runners |-> d[2]]
           /\ actionType' = [actionType EXCEPT ![r] = d[1]]
           /\ pc' = [pc EXCEPT ![r] = IF d[1] = None THEN "loop" ELSE "exec"]
  ELSE /\ pc' = [pc EXCEPT ![r] = "exited"]
       /\ UNCHANGED <<stepNumber, rng, actionType>>

\* a variant with `break` in place of `continue` when pick returns undefined
LoopStepBreak(r, t) ==
  IF stepNumber[r] < cfg[r].maxSteps /\ t < cfg[r].maxTimeMs
  THEN LET d == RngPick(rng[r], cfg[r].allowedActions)
       IN  /\ stepNumber' = [stepNumber EXCEPT ![r] = @ + 1]
           /\ rng' = [rng EXCEPT ![r] = d[2]]
           /\ actionType' = [actionType EXCEPT ![r] = d[1]]
           /\ pc' = [pc EXCEPT ![r] = IF d[1] = None THEN "exited" ELSE "exec"]
  ELSE /\ pc' = [pc EXCEPT ![r] = "exited"]
       /\ UNCHANGED <<stepNumber, rng, actionType>>

\* The loop's condition read with the clock at t, then stepNumber++ and the
\* pick of the action type; `continue` when pick returns undefined.
LoopStep(r, t) ==
  IF stepNumber[r] < cfg[r].maxSteps /\ t < cfg[r].maxTimeMs
  THEN LET d == RngPick(rng[r], cfg[r].allowedActions)
       IN  /\ stepNumber' = [stepNumber EXCEPT ![r] = @ + 1]
           /\ rng' = [rng EXCEPT ![r] = d[2]]
           /\ actionType' = [actionType EXCEPT ![r] = d[1]]
           /\ pc' = [pc EXCEPT ![r] = IF d[1] = None THEN "loop" ELSE "exec"]
  ELSE /\ pc' = [pc EXCEPT ![r] = "exited"]
       /\ UNCHANGED <<stepNumber, rng, actionType>>

runLoop(r) ==
  /\ pc[r] = "loop"
  /\ \E t \in elapsed[r] .. MaxClock :
       /\ elapsed' = [elapsed EXCEPT ![r] = t]
       /\ LoopStep(r, t)
  /\ UNCHANGED <<cfg, page, actions, consoleErrors, uncaughtExceptions,
                 invariantViolations, listeners, pageEvents, result, chosen,
                 acted, fault, reported>>
  /\ UNCHANGED <<observed, snapshot>>
  /\ UNCHANGED earlier
  /\ UNCHANGED genVars
  /\ UNCHANGED filterVars

\* a variant that goes from the push straight to the invariant checks,
\* without the progress callback
ExecutedUnreported(r, outcomes) ==
  /\ pc[r] = "exec"
  /\ \E o \in outcomes :
       /\ actions' = [actions EXCEPT ![r] = Append(@, o.rec)]
       /\ rng' = [rng EXCEPT ![r] = o.rng]
       /\ chosen' = [chosen EXCEPT ![r] =
                       Append(@, [type |-> actionType[r], drawn |-> o.drawn])]
       /\ acted' = [acted EXCEPT ![r] =
                      IF o.elem = None THEN @
                      ELSE Append(@, [type |-> actionType[r], elem |-> o.elem])]
       /\ fault' = [fault EXCEPT ![r] = o.fault]
  /\ pc' = [pc EXCEPT ![r] = "check"]
  /\ UNCHANGED <<cfg, page, stepNumber, actionType, consoleErrors,
                 uncaughtExceptions, invariantViolations, listeners,
                 pageEvents, elapsed, result, reported>>
  /\ UNCHANGED <<observed, snapshot>>
  /\ UNCHANGED earlier
  /\ UNCHANGED genVars
  /\ UNCHANGED filterVars

\* `const action = await this.executeAction(actionType);
\*  this.actions.push(action);` for one of the outcomes of the executor
Executed(r, outcomes) ==
  /\ pc[r] = "exec"
  /\ \E o \in outcomes :
       /\ actions' = [actions EXCEPT ![r] = Append(@, o.rec)]
       /\ rng' = [rng EXCEPT ![r] = o.rng]
       /\ chosen' = [chosen EXCEPT ![r] =
                       Append(@, [type |-> actionType[r], drawn |-> o.drawn])]
       /\ acted' = [acted EXCEPT ![r] =
                      IF o.elem = None THEN @
                      ELSE Append(@, [type |-> actionType[r], elem |-> o.elem])]
       /\ fault' = [fault EXCEPT ![r] = o.fault]
  /\ pc' = [pc EXCEPT ![r] = "report"]
  /\ UNCHANGED <<cfg, page, stepNumber, actionType, consoleErrors,
                 uncaughtExceptions, invariantViolations, listeners,
                 pageEvents, elapsed, result, reported>>
  /\ UNCHANGED <<observed, snapshot>>
  /\ UNCHANGED earlier
  /\ UNCHANGED genVars
  /\ UNCHANGED filterVars

executeClick(r) ==
  /\ actionType[r] = "click"
  /\ Executed(r, ClickOutcomes(cfg[r], page[r], rng[r]))

executeTypePrompt(r) ==
  /\ actionType[r] = "type-prompt"
  /\ Executed(r, TypePromptOutcomes(cfg[r], page[r], rng[r]))

executeNavigateBack(r) ==
  /\ actionType[r] = "navigate-back"
  /\ Executed(r, NavigateOutcomes("navigate-back", page[r], rng[r]))

executeNavigateForward(r) ==
  /\ actionType[r] = "navigate-forward"
  /\ Executed(r, NavigateOutcomes("navigate-forward", page[r], rng[r]))

executeRefresh(r) ==
  /\ actionType[r] = "refresh"
  /\ Executed(r, RefreshOutcomes(page[r], rng[r]))

executeScroll(r) ==
  /\ actionType[r] = "scroll"
  /\ Executed(r, ScrollOutcomes(page[r], rng[r]))

executeKeyboardShortcut(r) ==
  /\ actionType[r] = "keyboard-shortcut"
  /\ Executed(r, KeyboardShortcutOutcomes(page[r], rng[r]))

executeResizeViewport(r) ==
  /\ actionType[r] = "resize-viewport"
  /\ Executed(r, ResizeViewportOutcomes(page[r], rng[r]))

\* the kinds executeAction's switch has no case for
executeUnknown(r) ==
  /\ actionType[r] \in {"toggle-sidebar", "switch-model"}
  /\ Executed(r, UnknownOutcomes(actionType[r], rng[r]))

\* the error run() rejects with, thrown by `by`
Rejected(by) == [kind |-> "rejected", by |-> by]

\* `this.config.onAction?.(action, stepNumber);`: a callback that throws
\* ends run(), nothing catches it
reportProgress(r) ==
  /\ pc[r] = "report"
  /\ IF cfg[r].onAction = None
     THEN /\ pc' = [pc EXCEPT ![r] = "check"]
          /\ UNCHANGED <<reported, result>>
     ELSE /\ reported' = [reported EXCEPT ![r] =
                            Append(@, [action |-> Len(actions[r]),
                                       stepNumber |-> stepNumber[r]])]
          /\ \E throws \in BOOLEAN :
               IF throws
               THEN /\ pc' = [pc EXCEPT ![r] = "rejected"]
                    /\ result' = [result EXCEPT ![r] = Rejected("onAction")]
               ELSE /\ pc' = [pc EXCEPT ![r] = "check"]
                    /\ UNCHANGED result
  /\ UNCHANGED <<cfg, page, stepNumber, actionType, rng, actions,
                 consoleErrors, uncaughtExceptions, invariantViolations,
                 listeners, pageEvents, elapsed, chosen, acted, fault>>
  /\ UNCHANGED <<observed, snapshot>>
  /\ UNCHANGED earlier
  /\ UNCHANGED genVars
  /\ UNCHANGED filterVars

\* the literal limit of checkInvariants' console error check
ConsoleErrorThreshold == 10

\* a variant whose afterAction is the record before the step's own (the
\* check made before the push)
ViolationOfPrevious(invariant, r) ==
  [invariant |-> invariant, afterAction |-> Len(actions[r]) - 1]

Violation(invariant, r) ==
  [invariant |-> invariant, afterAction |-> Len(actions[r])]

\* what the evaluations of checkInvariants may return on the page: the
\* blank check, and the error dialog check
Blanks(p) == IF p.mode \in {"free", "blanking"} THEN BOOLEAN ELSE {FALSE}
Flags(p) == IF p.mode = "free" THEN BOOLEAN ELSE {FALSE}

\* a variant of checkInvariants in which the blank screen's push is nested
\* in the error dialog's `if`
ViolationsNested(r, isBlank, hasErrorDialog) ==
  (IF hasErrorDialog /\ isBlank
     THEN <<[invariant |-> "no-blank-screen", afterAction |-> Len(actions[r])]>>
     ELSE <<>>)
  \o (IF hasErrorDialog
        THEN <<[invariant |-> "no-crash-dialog", afterAction |-> Len(actions[r])]>>
        ELSE <<>>)
  \o (IF Len(consoleErrors[r]) > ConsoleErrorThreshold
        THEN <<[invariant |-> "console-error-threshold",
                afterAction |-> Len(actions[r])]>>
        ELSE <<>>)

\* the list checkInvariants returns when no evaluation throws
Violations(r, isBlank, hasErrorDialog) ==
  (IF isBlank THEN <<Violation("no-blank-screen", r)>> ELSE <<>>)
  \o (IF hasErrorDialog THEN <<Violation("no-crash-dialog", r)>> ELSE <<>>)
  \o (IF Len(consoleErrors[r]) > ConsoleErrorThreshold
        THEN <<Violation("console-error-threshold", r)>> ELSE <<>>)

\* `const violations = await this.checkInvariants(action);
\*  invariantViolations.push(...violations);`: an evaluation that throws
\* ends run(), nothing catches it
checkInvariants(r) ==
  /\ pc[r] = "check"
  /\ \E evaluated \in Oks(page[r]) :
       IF evaluated
       THEN /\ \E isBlank \in Blanks(page[r]), hasErrorDialog \in Flags(page[r]) :
                 /\ invariantViolations' =
                      [invariantViolations EXCEPT ![r] =
                         @ \o Violations(r, isBlank, hasErrorDialog)]
                 /\ observed' =
                      [observed EXCEPT ![r] =
                         Append(@, [after |-> Len(actions[r]),
                                    isBlank |-> isBlank,
                                    hasErrorDialog |-> hasErrorDialog,
                                    errors |-> Len(consoleErrors[r])])]
            /\ pc' = [pc EXCEPT ![r] = "settle"]
            /\ UNCHANGED result
       ELSE /\ pc' = [pc EXCEPT ![r] = "rejected"]
            /\ result' = [result EXCEPT ![r] = Rejected("evaluate")]
            /\ UNCHANGED <<invariantViolations, observed>>
  /\ UNCHANGED <<cfg, page, stepNumber, actionType, rng, actions,
                 consoleErrors, uncaughtExceptions, listeners, pageEvents,
                 elapsed, chosen, acted, fault, reported, snapshot>>
  /\ UNCHANGED earlier
  /\ UNCHANGED genVars
  /\ UNCHANGED filterVars

\* `await this.page.waitForTimeout(100);`
settle(r) ==
  /\ pc[r] = "settle"
  /\ pc' = [pc EXCEPT ![r] = "loop"]
  /\ UNCHANGED <<cfg, page, stepNumber, actionType, rng, actions,
                 consoleErrors, uncaughtExceptions, invariantViolations,
                 listeners, pageEvents, elapsed, result, chosen, acted, fault,
                 reported>>
  /\ UNCHANGED <<observed, snapshot>>
  /\ UNCHANGED earlier
  /\ UNCHANGED genVars
  /\ UNCHANGED filterVars

\* reproSteps: one line per action of the log, numbered from 1
ReproSteps(log, withValue) ==
  [i \in 1 .. Len(log) |->
     [n |-> i, type |-> log[i].type, target |-> log[i].target,
      value |-> IF withValue THEN log[i].value ELSE None]]

\* the issues run() builds: one per violation, then one per console error
Issues(r) ==
  [i \in 1 .. Len(invariantViolations[r]) |->
     [severity |-> "high", category |-> "llm-chaos",
      title |-> invariantViolations[r][i].invariant,
      reproSteps |-> ReproSteps(actions[r], TRUE)]]
  \o [i \in 1 .. Len(consoleErrors[r]) |->
        [severity |-> "medium", category |-> "console-error",
         title |-> "Console error during chaos run",
         reproSteps |-> ReproSteps(actions[r], FALSE)]]

\* The object run() returns, read with the clock at t.  Its actions,
\* consoleErrors and uncaughtExceptions are the runner's own arrays, not
\* copies: they are read from the variables of those names.
Returned(r, t) ==
  [kind |-> "returned", seed |-> cfg[r].seed, totalSteps |-> stepNumber[r],
   totalTimeMs |-> t, issues |-> Issues(r),
   invariantViolations |-> invariantViolations[r]]

\* run() after the loop: the issues and the return
runReturn(r) ==
  /\ pc[r] = "exited"
  /\ \E t \in elapsed[r] .. MaxClock :
       result' = [result EXCEPT ![r] = Returned(r, t)]
  /\ snapshot' = [snapshot EXCEPT ![r] =
                    [actions |-> actions[r], consoleErrors |-> consoleErrors[r],
                     uncaughtExceptions |-> uncaughtExceptions[r]]]
  /\ pc' = [pc EXCEPT ![r] = "done"]
  /\ UNCHANGED <<cfg, page, stepNumber, actionType, rng, actions,
                 consoleErrors, uncaughtExceptions, invariantViolations,
                 listeners, pageEvents, elapsed, chosen, acted, fault,
                 reported, observed>>
  /\ UNCHANGED earlier
  /\ UNCHANGED genVars
  /\ UNCHANGED filterVars

\* where the page's events reach the listeners: while run() is suspended on
\* the executor or on the settle delay (an event during checkInvariants is
\* read by it like one during the executor), and after run() has returned
Listening(r) == pc[r] \in {"exec", "settle", "done"}

\* how many messages the page logs at once: one, or as many as the threshold
Bursts == {1, ConsoleErrorThreshold}

\* the 'console' listener of setupErrorListeners, once per registration, for
\* each of n error messages
consoleError(r) ==
  /\ Listening(r)
  /\ page[r].mode = "noisy"
  /\ pageEvents[r] < MaxPageEvents
  /\ pageEvents' = [pageEvents EXCEPT ![r] = @ + 1]
  /\ \E n \in Bursts :
       consoleErrors' = [consoleErrors EXCEPT ![r] =
                           @ \o [i \in 1 .. n * listeners[r] |-> "console error"]]
  /\ UNCHANGED <<cfg, page, pc, stepNumber, actionType, rng, actions,
                 uncaughtExceptions, invariantViolations, listeners, elapsed,
                 result, chosen, acted, fault, reported>>
  /\ UNCHANGED <<observed, snapshot>>
  /\ UNCHANGED earlier
  /\ UNCHANGED genVars
  /\ UNCHANGED filterVars

\* the 'pageerror' listener of setupErrorListeners, once per registration
pageError(r) ==
  /\ Listening(r)
  /\ page[r].mode = "noisy"
  /\ pageEvents[r] < MaxPageEvents
  /\ pageEvents' = [pageEvents EXCEPT ![r] = @ + 1]
  /\ uncaughtExceptions' = [uncaughtExceptions EXCEPT ![r] =
                              @ \o [i \in 1 .. listeners[r] |-> "page error"]]
  /\ UNCHANGED <<cfg, page, pc, stepNumber, actionType, rng, actions,
                 consoleErrors, invariantViolations, listeners, elapsed,
                 result, chosen, acted, fault, reported>>
  /\ UNCHANGED <<observed, snapshot>>
  /\ UNCHANGED earlier
  /\ UNCHANGED genVars
  /\ UNCHANGED filterVars

(***************************************************************************)
(* Stand-alone SeededRandom instances                                      *)
(***************************************************************************)
\* the most calls made on one instance
MaxCalls == 2

\* the arguments the calls are given
IntRanges == {<<0, 4>>, <<100, 500>>, <<-3, 2>>}
\* ranges with max <= min
ReversedRanges == {<<5, 5>>, <<4, 0>>, <<500, 100>>}
\* the arrays shuffle is given
ShuffleLists == {<<>>, <<"a">>, <<"a", "b", "c">>, <<"a", "a", "b", "c">>}
\* the seeds of the instances called alone: 0, 1, 12345, 54321, 2^32 - 1 and
\* a Date.now() reading, 1700000000000
StreamSeeds ==
  {<<0, 0>>, <<0, 1>>, <<0, 12345>>, <<0, 54321>>, <<65535, 65535>>,
   <<25939941, 26624>>}
PickLists == {<<>>, <<"a", "b", "c">>}

Call(op, min, max, list) == [op |-> op, min |-> min, max |-> max, list |-> list]

\* a variant in which the state is one field shared by all instances (a
\* static member) rather than one per instance
CalledShared(i, call, returned, state) ==
  /\ Len(history[i]) < MaxCalls
  /\ gen' = [j \in Runners |-> state]
  /\ history' = [history EXCEPT ![i] =
                   Append(@, [call |-> call, result |-> returned])]
  /\ UNCHANGED runnerVars
  /\ UNCHANGED filterVars

\* a call on instance i that returns `returned` and leaves the state `state`;
\* the history holds the calls that returned
Called(i, call, returned, state) ==
  /\ Len(history[i]) < MaxCalls
  /\ gen' = [gen EXCEPT ![i] = state]
  /\ history' = [history EXCEPT ![i] =
                   Append(@, [call |-> call, result |-> returned])]
  /\ UNCHANGED runnerVars
  /\ UNCHANGED filterVars

callNext(i) ==
  LET d == RngNext(gen[i])
  IN  Called(i, Call("next", 0, 0, <<>>), d[1], d[2])

callNextInt(i) ==
  \E range \in IntRanges :
    LET d == RngNextInt(gen[i], range[1], range[2])
    IN  Called(i, Call("nextInt", range[1], range[2], <<>>), <<d[1]>>, d[2])

callPick(i) ==
  \E list \in PickLists :
    LET d == RngPick(gen[i], list)
    IN  Called(i, Call("pick", 0, 0, list), <<d[1]>>, d[2])

callNextIntReversed(i) ==
  \E range \in ReversedRanges :
    LET d == RngNextInt(gen[i], range[1], range[2])
    IN  Called(i, Call("nextInt", range[1], range[2], <<>>), <<d[1]>>, d[2])

callShuffle(i) ==
  \E list \in ShuffleLists :
    LET d == RngShuffle(gen[i], list)
    IN  Called(i, Call("shuffle", 0, 0, list), d[1], d[2])

\* how many times a call runs next(): once for next and nextInt, once for
\* pick unless the array is empty, length - 1 times for shuffle
DrawsOf(call) ==
  CASE call.op = "pick"    -> IF Len(call.list) = 0 THEN 0 ELSE 1
    [] call.op = "shuffle" -> IF Len(call.list) = 0 THEN 0 ELSE Len(call.list) - 1
    [] OTHER               -> 1

(***************************************************************************)
(* The safety filter alone                                                 *)
(***************************************************************************)
\* the forbiddenSelectors lists the filter is given
DenyLists ==
  {<<>>, <<"sel-delete">>, <<"sel-delete", "sel-remove">>,
   <<"sel-remove", "sel-delete">>}

\* executeClick's loop `for (const el of elements)` over the elements
\* page.$$ returned
filterElements ==
  /\ ~filtered
  /\ safeElements' = SafeElements(candidates, cfg[1].forbiddenSelectors)
  /\ filtered' = TRUE
  /\ UNCHANGED candidates
  /\ UNCHANGED runnerVars
  /\ UNCHANGED genVars

(***************************************************************************)
(* Specifications                                                          *)
(***************************************************************************)
\* the configuration the runners have where only the generators are at work
PlainConfig ==
  [seed |-> <<0, 54321>>, maxSteps |-> MaxSteps, maxTimeMs |-> MaxClock + 1,
   allowedActions |-> DefaultAllowed, forbiddenSelectors |-> ForbiddenSelectors,
   promptCorpus |-> PromptCorpus, onAction |-> None]

RunnerStep(r) ==
  \/ run(r)
  \/ runLoop(r)
  \/ executeClick(r)
  \/ executeTypePrompt(r)
  \/ executeNavigateBack(r)
  \/ executeNavigateForward(r)
  \/ executeRefresh(r)
  \/ executeScroll(r)
  \/ executeKeyboardShortcut(r)
  \/ executeResizeViewport(r)
  \/ executeUnknown(r)
  \/ reportProgress(r)
  \/ checkInvariants(r)
  \/ settle(r)
  \/ runReturn(r)

\* the step budget of the runs against mock pages
MockSteps == 4

\* the configuration of the runs against mock pages: scroll is the only kind
\* allowed, and the clock never reaches the time budget
MockConfig ==
  [seed |-> <<0, 54321>>, maxSteps |-> MockSteps, maxTimeMs |-> MaxClock + 1,
   allowedActions |-> <<"scroll">>, forbiddenSelectors |-> ForbiddenSelectors,
   promptCorpus |-> PromptCorpus, onAction |-> None]

\* One runner on a page that may answer anything: runner 1 runs, runner 2 is
\* constructed and never run.
Init ==
  /\ \E c \in Configs : Constructed(c, [r \in Runners |-> FreePage])
  /\ Seeded(<<0, 54321>>)
  /\ Queried(<<>>)

Next == RunnerStep(1)

Spec == Init /\ [][Next]_vars

\* Two runners with the same configuration, each on a steady page of its
\* own, their runs interleaved.
InitPair ==
  /\ \E c \in {k \in Configs : k.onAction = None},
        pg \in [Runners -> SteadyPages] : Constructed(c, pg)
  /\ Seeded(<<0, 54321>>)
  /\ Queried(<<>>)

NextPair == \E r \in Runners : RunnerStep(r)

SpecPair == InitPair /\ [][NextPair]_vars

\* One runner on a mock page, one that may render blank or one that emits
\* console errors and uncaught exceptions, during the run and after it.
InitMock ==
  /\ \E pg \in MockPages : Constructed(MockConfig, [r \in Runners |-> pg])
  /\ Seeded(<<0, 54321>>)
  /\ Queried(<<>>)

NextMock ==
  \/ run(1)
  \/ runLoop(1)
  \/ executeScroll(1)
  \/ reportProgress(1)
  \/ checkInvariants(1)
  \/ settle(1)
  \/ runReturn(1)
  \/ consoleError(1)
  \/ pageError(1)

SpecMock == InitMock /\ [][NextMock]_vars

\* Two SeededRandom instances constructed with the same seed, called in any
\* order.
InitRng ==
  /\ Constructed(PlainConfig, [r \in Runners |-> FreePage])
  /\ \E seed \in Seeds : Seeded(seed)
  /\ Queried(<<>>)

NextRng == \E i \in Runners : callNext(i) \/ callNextInt(i) \/ callPick(i)

SpecRng == InitRng /\ [][NextRng]_vars

\* One SeededRandom instance, given any calls with any arguments.
InitOne ==
  /\ Constructed(PlainConfig, [r \in Runners |-> FreePage])
  /\ \E seed \in StreamSeeds : Seeded(seed)
  /\ Queried(<<>>)

NextOne ==
  \/ callNext(1)
  \/ callNextInt(1)
  \/ callNextIntReversed(1)
  \/ callPick(1)
  \/ callShuffle(1)

SpecOne == InitOne /\ [][NextOne]_vars

\* the configuration of two runners run side by side: two kinds allowed, and
\* the clock never reaches the time budget
SideBySideConfig ==
  [seed |-> <<0, 54321>>, maxSteps |-> MaxSteps, maxTimeMs |-> MaxClock + 1,
   allowedActions |-> <<"scroll", "keyboard-shortcut">>,
   forbiddenSelectors |-> ForbiddenSelectors, promptCorpus |-> PromptCorpus,
   onAction |-> None]

\* Two runners with the same configuration, each on a page of its own, their
\* runs interleaved; the two pages answer the actions alike, and the page of
\* runner 1 emits console errors and uncaught exceptions.
InitSideBySide ==
  /\ Constructed(SideBySideConfig,
                 [r \in Runners |->
                    [mode |-> IF r = 1 THEN "noisy" ELSE "steady",
                     pool |-> <<>>, input |-> None]])
  /\ Seeded(<<0, 54321>>)
  /\ Queried(<<>>)

NextSideBySide ==
  \E r \in Runners :
    \/ run(r)
    \/ runLoop(r)
    \/ executeScroll(r)
    \/ executeKeyboardShortcut(r)
    \/ reportProgress(r)
    \/ checkInvariants(r)
    \/ settle(r)
    \/ runReturn(r)
    \/ consoleError(r)
    \/ pageError(r)

SpecSideBySide == InitSideBySide /\ [][NextSideBySide]_vars

\* the configuration of a runner that is run again: scroll is the only kind
\* allowed, each run is of one step, the clock never reaches the time budget
AgainConfig ==
  [seed |-> <<0, 54321>>, maxSteps |-> 1, maxTimeMs |-> MaxClock + 1,
   allowedActions |-> <<"scroll">>, forbiddenSelectors |-> ForbiddenSelectors,
   promptCorpus |-> PromptCorpus, onAction |-> None]

\* One runner on a page that emits console errors and uncaught exceptions,
\* run() called on it again after it returned.
InitAgain ==
  /\ Constructed(AgainConfig,
                 [r \in Runners |->
                    [mode |-> "noisy", pool |-> <<>>, input |-> None]])
  /\ Seeded(<<0, 54321>>)
  /\ Queried(<<>>)

NextAgain ==
  \/ run(1)
  \/ runAgain(1)
  \/ runLoop(1)
  \/ executeScroll(1)
  \/ reportProgress(1)
  \/ checkInvariants(1)
  \/ settle(1)
  \/ runReturn(1)
  \/ consoleError(1)
  \/ pageError(1)

SpecAgain == InitAgain /\ [][NextAgain]_vars

\* The filter loop of executeClick, given any elements and any list of
\* forbidden selectors.
InitFilter ==
  /\ \E deny \in DenyLists :
       Constructed([PlainConfig EXCEPT !.forbiddenSelectors = deny],
                   [r \in Runners |-> FreePage])
  /\ Seeded(<<0, 54321>>)
  /\ \E given \in Pools : Queried(given)

NextFilter == filterElements

SpecFilter == InitFilter /\ [][NextFilter]_vars

(***************************************************************************)
(* Reproducibility                                                         *)
(***************************************************************************)
\* C1 (checked under SpecPair): the kinds chosen and the values drawn are a
\* function of the seed alone, whatever the target answers: two runs of the
\* same configuration that execute the same number of steps have chosen the
\* same kinds and drawn the same values, step by step.  Stated here for the
\* kinds alone, the least the claim promises.
C1_ChoicesDependOnSeedOnly ==
  (pc[1] = "done" /\ pc[2] = "done" /\ stepNumber[1] = stepNumber[2])
    => \A k \in 1 .. Len(chosen[1]) :
         k <= Len(chosen[2]) => chosen[1][k].type = chosen[2][k].type

\* C2 as stated (checked under SpecPair): two full runs of the same
\* configuration against the same steady target return the same log of
\* action records, of the same length.
C2_SameTargetSameLog ==
  (pc[1] = "done" /\ pc[2] = "done" /\ page[1] = page[2])
    => actions[1] = actions[2]

\* C2 (checked under SpecPair): two runs of the same configuration against
\* the same steady target log the same record at every position both have
\* reached, and the same log when both return after the same number of
\* steps; the time budget, read from the wall clock, may end one run sooner
\* than the other.
C2_SameTargetSameLogPerStep ==
  page[1] = page[2] =>
    /\ \A k \in 1 .. Len(actions[1]) :
         k <= Len(actions[2]) => actions[1][k] = actions[2][k]
    /\ (/\ pc[1] = "done" /\ pc[2] = "done"
        /\ result[1].totalSteps = result[2].totalSteps)
         => actions[1] = actions[2]

\* both runs returned after MaxSteps steps on the page that holds elements
\* and an input, with a drawn value in the first record
C2_Witness ==
  /\ pc[1] = "done" /\ pc[2] = "done"
  /\ page[1] = page[2] /\ page[1].input # None
  /\ result[1].totalSteps = MaxSteps /\ result[2].totalSteps = MaxSteps
  /\ Len(actions[1]) = MaxSteps
  /\ actions[1][1].value # None

\* C3 (checked under SpecRng): two SeededRandom instances constructed with
\* the same seed and given the same sequence of calls return the same
\* sequence of results.
C3_SameSeedSameCallsSameResults ==
  \A n \in 1 .. MaxCalls :
    (/\ n <= Len(history[1]) /\ n <= Len(history[2])
     /\ \A k \in 1 .. n : history[1][k].call = history[2][k].call)
      => history[1][n].result = history[2][n].result

\* both instances were given nextInt and then pick from a list of three
C3_Witness ==
  /\ Len(history[1]) >= 2 /\ Len(history[2]) >= 2
  /\ history[1][1].call = history[2][1].call
  /\ history[1][2].call = history[2][2].call
  /\ history[1][1].call.op = "nextInt"
  /\ history[1][2].call.op = "pick" /\ Len(history[1][2].call.list) = 3

(***************************************************************************)
(* The budgets of the loop                                                 *)
(***************************************************************************)
\* C4: a run configured with maxSteps = N and a time budget the clock never
\* reaches executes exactly N actions before it returns: it returns
\* totalSteps = N and a log of N records.
C4_ExactlyMaxStepsActions ==
  (pc[1] = "done" /\ cfg[1].maxTimeMs > MaxClock)
    => /\ result[1].totalSteps = cfg[1].maxSteps
       /\ Len(actions[1]) = cfg[1].maxSteps

\* C5: the step counter never exceeds maxSteps, and when the loop's
\* condition ends the loop with fewer than maxSteps steps, the elapsed time
\* it read is at least maxTimeMs; so is the totalTimeMs of the result.
C5_StepAndTimeBudget ==
  /\ stepNumber[1] <= cfg[1].maxSteps
  /\ (pc[1] \in {"exited", "done"} /\ stepNumber[1] < cfg[1].maxSteps)
       => elapsed[1] >= cfg[1].maxTimeMs
  /\ (pc[1] = "done" /\ result[1].totalSteps < cfg[1].maxSteps)
       => result[1].totalTimeMs >= cfg[1].maxTimeMs

\* the time budget ended a run after at least one step and before the last
C5_Witness ==
  /\ pc[1] = "done"
  /\ result[1].totalSteps >= 1
  /\ result[1].totalSteps < cfg[1].maxSteps
  /\ Len(actions[1]) = result[1].totalSteps

(***************************************************************************)
(* The deny list                                                           *)
(***************************************************************************)
\* C6: no click is ever performed on an element for which the check of a
\* forbidden selector answered true, whatever other elements page.$$
\* returned with it.
C6_ClickNeverOnDenied ==
  \A i \in 1 .. Len(acted[1]) :
    acted[1][i].type = "click" =>
      \A k \in 1 .. Len(cfg[1].forbiddenSelectors) :
        MatchCheck(acted[1][i].elem, cfg[1].forbiddenSelectors[k]) # "true"

\* a click was performed, and recorded as a success, on an element whose
\* checks all threw
C6_Witness ==
  /\ pc[1] = "report"
  /\ Len(acted[1]) >= 1
  /\ acted[1][Len(acted[1])] = [type |-> "click", elem |-> "staleLink"]
  /\ actions[1][Len(actions[1])].type = "click"
  /\ actions[1][Len(actions[1])].success

\* C7 as stated: no action of any kind, type-prompt included, acts on an
\* element that matches a forbidden selector.
C7_NoActionOnDenied ==
  \A i \in 1 .. Len(acted[1]) :
    \A k \in 1 .. Len(cfg[1].forbiddenSelectors) :
      MatchCheck(acted[1][i].elem, cfg[1].forbiddenSelectors[k]) # "true"

\* C7: the forbidden selectors are consulted by click alone: an element that
\* matches one is never clicked, and when an action did act on such an
\* element it was type-prompt, which fills the first chat input it finds
\* without consulting them.
C7_OnlyTypePromptOnDenied ==
  \A i \in 1 .. Len(acted[1]) :
    (\E k \in 1 .. Len(cfg[1].forbiddenSelectors) :
       MatchCheck(acted[1][i].elem, cfg[1].forbiddenSelectors[k]) = "true")
      => acted[1][i].type = "type-prompt"

\* type-prompt filled an input that matches a forbidden selector, and the
\* record says it succeeded
C7_Witness ==
  /\ Len(acted[1]) >= 1
  /\ acted[1][Len(acted[1])] = [type |-> "type-prompt", elem |-> "removeNote"]
  /\ pc[1] = "report"
  /\ actions[1][Len(actions[1])].success

C9_CheckNeverEndsRun ==
  ~(pc[1] = "rejected" /\ result[1] = Rejected("evaluate"))

\* C10: a failure of the onAction callback is swallowed: run() is never
\* rejected with the error the callback threw.
C10_CallbackFailureSwallowed ==
  ~(pc[1] = "rejected" /\ result[1] = Rejected("onAction"))

(***************************************************************************)
(* Configuration                                                           *)
(***************************************************************************)
\* C11: a malformed configuration (an empty allowedActions list, a maxSteps
\* or maxTimeMs that is not positive) fails at construction: with such a
\* configuration run() never begins, no loop iteration is performed and no
\* result is returned.
C11_MalformedConfigNeverRuns ==
  (\/ Len(cfg[1].allowedActions) = 0
   \/ cfg[1].maxSteps <= 0
   \/ cfg[1].maxTimeMs <= 0)
    => pc[1] = "new" /\ stepNumber[1] = 0 /\ result[1] = NoResult

(***************************************************************************)
(* The invariant checks                                                    *)
(***************************************************************************)
\* C12 (checked under SpecMock): when the blank check answered true at the
\* check after action k and at no other, the run returns with exactly one
\* no-blank-screen violation, which references record k of the log, and it
\* has gone on to the end of its step budget.
C12_BlankOnceOneViolation ==
  \A k \in 1 .. MockSteps :
    (/\ pc[1] = "done"
     /\ \E i \in 1 .. Len(observed[1]) :
          /\ observed[1][i].isBlank /\ observed[1][i].after = k
          /\ \A j \in 1 .. Len(observed[1]) : observed[1][j].isBlank => j = i)
      => /\ SelectSeq(result[1].invariantViolations,
                      LAMBDA v : v.invariant = "no-blank-screen")
              = <<[invariant |-> "no-blank-screen", afterAction |-> k]>>
         /\ result[1].totalSteps = cfg[1].maxSteps
         /\ Len(actions[1]) = cfg[1].maxSteps

\* the page was blank after the third action only, and the run returned
\* after a fourth
C12_Witness ==
  /\ pc[1] = "done"
  /\ Len(actions[1]) >= 4
  /\ Len(observed[1]) >= 4
  /\ \A i \in 1 .. Len(observed[1]) : observed[1][i].isBlank <=> i = 3
  /\ observed[1][3].after = 3

\* C13 (checked under SpecMock): when the page has logged 11 console errors
\* in all by the time run() returns, at whatever steps, the violation log
\* holds exactly one console-error-threshold violation, and it was recorded
\* by the first check that saw the 11th error.
C13_ElevenErrorsOneViolation ==
  (pc[1] = "done" /\ Len(snapshot[1].consoleErrors) = ConsoleErrorThreshold + 1)
    => LET over == SelectSeq(result[1].invariantViolations,
                             LAMBDA v : v.invariant = "console-error-threshold")
       IN  /\ Len(over) = 1
           /\ \E i \in 1 .. Len(observed[1]) :
                /\ observed[1][i].errors > ConsoleErrorThreshold
                /\ \A j \in 1 .. (i - 1) :
                     observed[1][j].errors <= ConsoleErrorThreshold
                /\ over[1].afterAction = observed[1][i].after

(***************************************************************************)
(* The result                                                              *)
(***************************************************************************)
\* C14 (checked under SpecMock): in every result run() has returned, the
\* issues are one of high severity per invariant violation followed by one
\* of medium severity per console error of the result: as many issues as
\* violations and console errors together, none for an uncaught exception.
C14_IssuesPerViolationAndError ==
  pc[1] = "done" =>
    LET nv == Len(result[1].invariantViolations)
        ne == Len(consoleErrors[1])
    IN  /\ Len(result[1].issues) = nv + ne
        /\ \A i \in 1 .. Len(result[1].issues) :
             result[1].issues[i].severity = IF i <= nv THEN "high" ELSE "medium"

\* C15 (checked under SpecMock): once run() has returned, the result no
\* longer changes: its consoleErrors, uncaughtExceptions and actions are what
\* they were when it returned, whatever the page emits afterwards.
C15_ResultFrozenAfterReturn ==
  pc[1] = "done" =>
    /\ consoleErrors[1] = snapshot[1].consoleErrors
    /\ uncaughtExceptions[1] = snapshot[1].uncaughtExceptions
    /\ actions[1] = snapshot[1].actions

(***************************************************************************)
(* The logs                                                                *)
(***************************************************************************)
\* C16: the action log and the violation log are append-only and in step
\* order: a step leaves the action log as it was or appends one record at
\* its end, it leaves the violation log as it was or appends violations that
\* reference the record then last in the action log, and along the
\* violation log the positions of the referenced records never decrease.
C16_LogsAppendOnlyInStepOrder ==
  /\ [](\A i, j \in 1 .. Len(invariantViolations[1]) :
          i <= j => /\ invariantViolations[1][i].afterAction
                         <= invariantViolations[1][j].afterAction
                    /\ invariantViolations[1][i].afterAction \in
                         1 .. Len(actions[1]))
  /\ [][/\ \/ actions'[1] = actions[1]
           \/ /\ Len(actions'[1]) = Len(actions[1]) + 1
              /\ SubSeq(actions'[1], 1, Len(actions[1])) = actions[1]
        /\ Len(invariantViolations'[1]) >= Len(invariantViolations[1])
        /\ SubSeq(invariantViolations'[1], 1, Len(invariantViolations[1]))
             = invariantViolations[1]
        /\ \A i \in (Len(invariantViolations[1]) + 1)
                      .. Len(invariantViolations'[1]) :
             /\ actions'[1] = actions[1]
             /\ invariantViolations'[1][i].afterAction = Len(actions[1])]_vars

\* violations were appended at two checks, the first after record 1 and the
\* latest after record 2
C16_Witness ==
  /\ Len(actions[1]) = 2
  /\ Len(invariantViolations[1]) >= 2
  /\ invariantViolations[1][1].afterAction = 1
  /\ invariantViolations[1][Len(invariantViolations[1])].afterAction = 2

(***************************************************************************)
(* SeededRandom                                                            *)
(***************************************************************************)
\* C17 (checked under SpecOne): nextInt(min, max) with min < max returns an
\* integer v with min <= v < max, in whatever state the generator is;
\* hence pick from a non-empty list returns an element of the list.
C17_NextIntInRange ==
  \A n \in 1 .. Len(history[1]) :
    LET h == history[1][n]
    IN  /\ (h.call.op = "nextInt" /\ h.call.min < h.call.max)
             => h.result[1] \in h.call.min .. (h.call.max - 1)
        /\ (h.call.op = "pick" /\ Len(h.call.list) > 0)
             => \E k \in 1 .. Len(h.call.list) : h.result[1] = h.call.list[k]

\* nextInt returned the last value of a range that starts below 0
C17_Witness ==
  \E n \in 1 .. Len(history[1]) :
    /\ history[1][n].call.op = "nextInt"
    /\ history[1][n].call.min < 0
    /\ history[1][n].call.min < history[1][n].call.max
    /\ history[1][n].result[1] = history[1][n].call.max - 1

\* C18 (checked under SpecOne): nextInt(min, max) with max <= min fails with
\* InvalidRangeError: no such call returns a value.
C18_ReversedRangeNeverReturns ==
  \A n \in 1 .. Len(history[1]) :
    ~(history[1][n].call.op = "nextInt"
      /\ history[1][n].call.max <= history[1][n].call.min)

\* C19 (checked under SpecOne): shuffle returns a permutation of the array
\* it is given: as long, and with each element as many times.
C19_ShuffleIsPermutation ==
  \A n \in 1 .. Len(history[1]) :
    LET h == history[1][n]
    IN  h.call.op = "shuffle" =>
          /\ Len(h.result) = Len(h.call.list)
          /\ \A e \in {h.call.list[k] : k \in 1 .. Len(h.call.list)} :
               Cardinality({k \in 1 .. Len(h.result) : h.result[k] = e})
                 = Cardinality({k \in 1 .. Len(h.call.list) : h.call.list[k] = e})
          /\ \A k \in 1 .. Len(h.result) :
               \E m \in 1 .. Len(h.call.list) : h.result[k] = h.call.list[m]

\* an array with a repeated element came back in another order
C19_Witness ==
  \E n \in 1 .. Len(history[1]) :
    /\ history[1][n].call.op = "shuffle"
    /\ Len(history[1][n].call.list) = 4
    /\ history[1][n].result # history[1][n].call.list
    /\ history[1][n].result[1] # "a"

(***************************************************************************)
(* Termination                                                             *)
(***************************************************************************)
\* C20: whether the calls on the target return or fail, run() eventually
\* terminates and returns a result: as long as it has not returned it is
\* about to start or at a step of its loop, never ended without a result.
C20_RunEndsOnlyByReturning ==
  pc[1] \in {"new", "loop", "exec", "report", "check", "settle", "exited", "done"}

C22_KeptIffNoSucceededMatch ==
  filtered =>
    /\ safeElements =
         SelectSeq(candidates,
                   LAMBDA el : ~\E k \in 1 .. Len(cfg[1].forbiddenSelectors) :
                                  MatchCheck(el, cfg[1].forbiddenSelectors[k])
                                    = "true")
    /\ \A i \in 1 .. Len(candidates) :
         (\E j \in 1 .. Len(safeElements) : safeElements[j] = candidates[i])
           <=> \A k \in 1 .. Len(cfg[1].forbiddenSelectors) :
                 MatchCheck(candidates[i], cfg[1].forbiddenSelectors[k])
                   \in {"false", "throw"}

\* of five candidates the filter kept the one whose checks all threw and
\* dropped the one whose first check threw and whose second answered true
C22_Witness ==
  /\ filtered
  /\ safeElements = <<"btnSend", "tabHistory", "staleLink">>
  /\ candidates = ClickElements
  /\ cfg[1].forbiddenSelectors = <<"sel-delete", "sel-remove">>
  /\ MatchCheck("staleRemove", "sel-delete") = "throw"
  /\ MatchCheck("staleRemove", "sel-remove") = "true"

(***************************************************************************)
(* The order of a step                                                     *)
(***************************************************************************)
\* C23: the steps of a run follow one order and do not overlap.  Where step
\* n stands tells what has been done: while its executor is in flight the
\* log, the callback and the checks are those of the n - 1 steps before it;
\* its record is appended, then the callback (when there is one) is called
\* once, with that record and the step number n, then the checks are run
\* once, whether the record says success or failure, and only then is the
\* kind of step n + 1 drawn.
C23_StepsInFixedOrder ==
  LET n == stepNumber[1]
      calls == IF cfg[1].onAction = None THEN 0 ELSE 1
  IN  /\ pc[1] = "exec" =>
           /\ Len(actions[1]) = n - 1
           /\ Len(reported[1]) = calls * (n - 1)
           /\ Len(observed[1]) = n - 1
      /\ pc[1] = "report" =>
           /\ Len(actions[1]) = n
           /\ Len(reported[1]) = calls * (n - 1)
           /\ Len(observed[1]) = n - 1
      /\ pc[1] = "check" =>
           /\ Len(actions[1]) = n
           /\ Len(reported[1]) = calls * n
           /\ Len(observed[1]) = n - 1
      /\ pc[1] = "settle" =>
           /\ Len(actions[1]) = n
           /\ Len(reported[1]) = calls * n
           /\ Len(observed[1]) = n
      /\ \A k \in 1 .. Len(reported[1]) :
           reported[1][k] = [action |-> k, stepNumber |-> k]
      /\ \A k \in 1 .. Len(observed[1]) : observed[1][k].after = k
      /\ Len(chosen[1]) = Len(actions[1])

\* the executor of step 2 is in flight after a step 1 whose action failed:
\* the callback was called once for step 1 and the checks were run once
C23_Witness ==
  /\ pc[1] = "exec"
  /\ stepNumber[1] = 2
  /\ ~actions[1][1].success
  /\ reported[1] = <<[action |-> 1, stepNumber |-> 1]>>
  /\ Len(observed[1]) = 1

(***************************************************************************)
(* The loop's condition                                                    *)
(***************************************************************************)
\* C24 as stated: the counter is incremented first and the condition
\* (steps >= maxSteps or elapsed >= maxTimeMs) is then checked with the
\* incremented counter, and when it holds no action is executed in that
\* iteration: so no executor is in flight with a counter that has reached
\* maxSteps.
C24_NoActionOnceCounterAtBudget ==
  pc[1] = "exec" => stepNumber[1] < cfg[1].maxSteps

\* C24: in each iteration the condition is checked first, with the counter
\* of the iterations before it (stepNumber < maxSteps and elapsed <
\* maxTimeMs); when it holds the counter is incremented and the iteration's
\* action is executed, so the action of iteration maxSteps is executed; when
\* it fails the loop ends with the counter as it was, and no action is
\* executed after that.
C24_ConditionCheckedBeforeIncrement ==
  /\ [](/\ pc[1] = "exec" =>
             /\ stepNumber[1] \in 1 .. cfg[1].maxSteps
             /\ elapsed[1] < cfg[1].maxTimeMs
        /\ pc[1] \in {"exited", "done"} =>
             \/ stepNumber[1] >= cfg[1].maxSteps
             \/ elapsed[1] >= cfg[1].maxTimeMs
        /\ pc[1] = "done" => actions[1] = snapshot[1].actions)
  /\ [][/\ stepNumber'[1] # stepNumber[1] =>
             /\ pc[1] = "loop"
             /\ stepNumber[1] < cfg[1].maxSteps
             /\ elapsed'[1] < cfg[1].maxTimeMs
             /\ stepNumber'[1] = stepNumber[1] + 1
        /\ (pc[1] = "loop" /\ pc'[1] = "exited") =>
             /\ stepNumber'[1] = stepNumber[1]
             /\ actions'[1] = actions[1]
        /\ pc[1] \in {"exited", "done"} =>
             /\ pc'[1] \in {"exited", "done"}
             /\ actions'[1] = actions[1]
             /\ stepNumber'[1] = stepNumber[1]]_vars

\* the loop has ended on the step budget after the action of iteration
\* maxSteps was executed
C24_Witness ==
  /\ pc[1] = "exited"
  /\ cfg[1].maxSteps = MaxSteps
  /\ stepNumber[1] = MaxSteps
  /\ Len(actions[1]) = MaxSteps
  /\ elapsed[1] < cfg[1].maxTimeMs

(***************************************************************************)
(* The generator's state                                                   *)
(***************************************************************************)
\* C25 as stated (checked under SpecOne): after every draw the stored state
\* is an unsigned 32-bit integer, it lies in [0, 2^32).
C25_StateIsUint32 ==
  Len(history[1]) >= 1 => (gen[1][1] >= 0 /\ gen[1][1] < W16)

\* C25 (checked under SpecOne): the stored state is a number that is never
\* reduced: a call that makes k draws leaves it at its value before plus
\* k * 0x6d2b79f5, which passes 2^32; what each draw mixes is the low 32 bits
\* of it, which are (s + k * 0x6d2b79f5) mod 2^32.
C25_StateIsUnwrappedSum ==
  /\ [](gen[1][1] >= 0 /\ gen[1][2] \in 0 .. (W16 - 1))
  /\ [][history'[1] # history[1] =>
          LET k == DrawsOf(history'[1][Len(history'[1])].call)
              \* k * 0x6d2b79f5, and the low half of the sum before the carry
              kg == <<k * Golden[1] + (k * Golden[2]) \div W16,
                      (k * Golden[2]) % W16>>
              lo == gen[1][2] + kg[2]
          IN  /\ gen'[1] = <<gen[1][1] + kg[1] + lo \div W16, lo % W16>>
              /\ ToWord(gen'[1]) = Add32(ToWord(gen[1]), ToWord(kg))]_vars

\* a shuffle of four elements has made three draws from seed 54321 and left
\* a state above 2^32
C25_Witness ==
  /\ Len(history[1]) = 1
  /\ history[1][1].call.op = "shuffle"
  /\ Len(history[1][1].call.list) = 4
  /\ gen[1] = Advance(Advance(Advance(<<0, 54321>>)))
  /\ gen[1][1] >= W16

(***************************************************************************)
(* The issues                                                              *)
(***************************************************************************)
\* C26 (checked under SpecMock): the reproduction steps of the issue of a
\* violation list the log up to and including the action the violation
\* references, and no action executed after it.
C26_ReproStepsStopAtViolation ==
  pc[1] = "done" =>
    \A i \in 1 .. Len(result[1].invariantViolations) :
      Len(result[1].issues[i].reproSteps)
        = result[1].invariantViolations[i].afterAction

(***************************************************************************)
(* The dispatch                                                            *)
(***************************************************************************)
\* C27: every kind of the taxonomy, toggle-sidebar and switch-model
\* included, is dispatched to an executor of its own when it is allowed and
\* drawn: the step's record is of the kind drawn and it is the record of an
\* interaction with the target, never that of executeAction's default branch
\* ("Unknown action type"), which touches nothing.
C27_EveryKindHasExecutor ==
  \A k \in 1 .. Len(actions[1]) :
    /\ actions[1][k].type = chosen[1][k].type
    /\ \E i \in 1 .. Len(ActionKinds) : actions[1][k].type = ActionKinds[i]
    /\ actions[1][k].error # "Unknown action type"

(***************************************************************************)
(* Runners side by side                                                    *)
(***************************************************************************)
\* C28 (checked under SpecSideBySide): two runners whose runs interleave
\* share no generator and no log: a step that changes the generator's state,
\* the action log, the console error log or the exception log of one runner
\* leaves those of the other as they were; and so, with the same
\* configuration and the same answers of the target, the kinds and values
\* one runner draws are those the other draws, step by step, however the two
\* runs interleave.
C28_RunnersShareNothing ==
  /\ [](\A k \in 1 .. Len(chosen[1]) :
          k <= Len(chosen[2]) =>
            /\ chosen[1][k] = chosen[2][k]
            /\ actions[1][k] = actions[2][k])
  /\ [](\A r \in Runners :
          (pc[r] = "loop" /\ pc[3 - r] = "loop"
           /\ stepNumber[r] = stepNumber[3 - r])
            => rng[r] = rng[3 - r])
  /\ [][\E r \in Runners :
          /\ rng'[r] = rng[r]
          /\ actions'[r] = actions[r]
          /\ consoleErrors'[r] = consoleErrors[r]
          /\ uncaughtExceptions'[r] = uncaughtExceptions[r]
          /\ invariantViolations'[r] = invariantViolations[r]
          /\ stepNumber'[r] = stepNumber[r]
          /\ pc'[r] = pc[r]]_vars

\* runner 1 has returned after MaxSteps steps and captured a console error
\* while the executor of runner 2, one step behind, is in flight
C28_Witness ==
  /\ pc[1] = "done"
  /\ Len(actions[1]) = MaxSteps
  /\ Len(consoleErrors[1]) >= 1
  /\ pc[2] = "exec"
  /\ Len(actions[2]) = MaxSteps - 1
  /\ Len(consoleErrors[2]) = 0
  /\ rng[1] # rng[2]

(***************************************************************************)
(* Steps and records                                                       *)
(***************************************************************************)
\* C29: in the result of a runner's first run(), the log holds as many
\* records as totalSteps when allowedActions is not empty; when it is empty
\* the log is empty while totalSteps counts the iterations, each of which
\* incremented the counter and skipped the action, the callback, the checks
\* and the settle delay, and drew nothing.
C29_RecordsEqualStepsUnlessNoneAllowed ==
  pc[1] = "done" =>
    IF Len(cfg[1].allowedActions) > 0
    THEN /\ Len(actions[1]) = result[1].totalSteps
         /\ Len(snapshot[1].actions) = result[1].totalSteps
    ELSE /\ actions[1] = <<>>
         /\ snapshot[1].actions = <<>>
         /\ reported[1] = <<>>
         /\ observed[1] = <<>>
         /\ rng[1] = cfg[1].seed
         /\ elapsed[1] < cfg[1].maxTimeMs =>
              result[1].totalSteps = cfg[1].maxSteps
         /\ result[1].issues = <<>>

\* a run with nothing allowed returned totalSteps = MaxSteps and no record
C29_Witness ==
  /\ pc[1] = "done"
  /\ cfg[1].allowedActions = <<>>
  /\ result[1].totalSteps = MaxSteps
  /\ MaxSteps > 0
  /\ actions[1] = <<>>

(***************************************************************************)
(* run() called again                                                      *)
(***************************************************************************)
\* C30 (checked under SpecAgain): a later run() on the same runner does not
\* start from fresh state.  Its log begins with the log the runs before it
\* left and its own records follow, its totalSteps counts its own iterations
\* only, its first draw is made from the state the generator was left in,
\* not from the seed, and one listener more is registered at each call, so
\* that a console error emitted during the second run is captured twice.
C30_LaterRunContinuesState ==
  /\ [](Len(earlier[1]) >= 1 =>
          LET e == earlier[1][Len(earlier[1])]
              n == Len(e.actions)
          IN  /\ listeners[1] = Len(earlier[1]) + 1
              /\ Len(actions[1]) >= n
              /\ SubSeq(actions[1], 1, n) = e.actions
              /\ n = Len(earlier[1]) * cfg[1].maxSteps
              /\ Len(actions[1]) > n =>
                   LET k == RngPick(e.rng, cfg[1].allowedActions)
                       d == RngPick(k[2], ScrollDirections)
                       a == RngNextInt(d[2], 100, 500)
                   IN  /\ e.rng # cfg[1].seed
                       /\ chosen[1][n + 1] =
                            [type |-> k[1], drawn |-> <<d[1], a[1]>>]
                       /\ actions[1][n + 1].value = d[1]
              /\ pc[1] = "done" =>
                   /\ result[1].totalSteps = cfg[1].maxSteps
                   /\ Len(actions[1]) = n + result[1].totalSteps
                   /\ Len(actions[1]) > result[1].totalSteps)
  /\ [][consoleErrors'[1] # consoleErrors[1] =>
          /\ SubSeq(consoleErrors'[1], 1, Len(consoleErrors[1]))
               = consoleErrors[1]
          /\ \E b \in Bursts :
               Len(consoleErrors'[1])
                 = Len(consoleErrors[1]) + b * (Len(earlier[1]) + 1)]_vars

\* the second run has returned: one step of its own after the first run's
\* one, two records in its log, and the one console error the page emitted
\* during it captured twice
C30_Witness ==
  /\ pc[1] = "done"
  /\ Len(earlier[1]) = 1
  /\ earlier[1][1].errors = 0
  /\ earlier[1][1].totalSteps = 1
  /\ result[1].totalSteps = 1
  /\ Len(actions[1]) = 2
  /\ Len(consoleErrors[1]) = 2

====
